---- MODULE Spec2Model ----
(***************************************************************************)
(* Sirar-DMO-Chatbot (streamlit_app.py): the conversation-stage state      *)
(* machine, the word collection / classification pipeline, the topic guard,*)
(* the credential lookup and the sidebar export.                           *)
(*                                                                         *)
(* One action is one user event together with every Streamlit script run   *)
(* it causes (the run that handles the event and the run started by        *)
(* st.rerun()).  Python strings are sequences of one-character strings, so *)
(* split, strip, lower, title and the substring test are computed.         *)
(***************************************************************************)
EXTENDS Integers, Sequences, FiniteSets, TLC

----------------------------------------------------------------------------
(* Bounds of the model *)

\* longest chat_history the specifications explore
MaxHistory == 9

\* longest chat_history of the end-to-end scenario: the greeting and five turns
MaxScenario == 11

\* longest chat_history of a session of several rounds: the greeting and
\* six turns
MaxRounds == 13

\* largest reading of the wall clock
MaxClock == 1

----------------------------------------------------------------------------
(* Python string operations on sequences of characters *)

LowerLetters ==
    <<"a","b","c","d","e","f","g","h","i","j","k","l","m","n","o","p","q","r","s","t","u","v","w","x","y","z">>

UpperLetters ==
    <<"A","B","C","D","E","F","G","H","I","J","K","L","M","N","O","P","Q","R","S","T","U","V","W","X","Y","Z">>

IsLower(c) == \E i \in 1..Len(LowerLetters) : LowerLetters[i] = c

IsUpper(c) == \E i \in 1..Len(UpperLetters) : UpperLetters[i] = c

IsCased(c) == IsLower(c) \/ IsUpper(c)

IsSpace(c) == c = " "

\* str.lower() on one character
LowerChar(c) ==
    IF IsUpper(c)
    THEN LowerLetters[CHOOSE i \in 1..Len(UpperLetters) : UpperLetters[i] = c]
    ELSE c

\* str.upper() on one character
UpperChar(c) ==
    IF IsLower(c)
    THEN UpperLetters[CHOOSE i \in 1..Len(LowerLetters) : LowerLetters[i] = c]
    ELSE c

\* str.lower()
lower(s) == [i \in 1..Len(s) |-> LowerChar(s[i])]

\* str.title(): a cased character is upper-cased when the character before it
\* is not cased, lower-cased otherwise
title(s) ==
    [i \in 1..Len(s) |->
        IF ~IsCased(s[i]) THEN s[i]
        ELSE IF i = 1 \/ ~IsCased(s[i-1]) THEN UpperChar(s[i])
        ELSE LowerChar(s[i])]

\* str.strip(): drop leading and trailing whitespace
strip(s) ==
    LET keep == {i \in 1..Len(s) : ~IsSpace(s[i])}
    IN  IF keep = {} THEN <<>>
        ELSE LET first == CHOOSE i \in keep : \A j \in keep : i <= j
                 last  == CHOOSE i \in keep : \A j \in keep : j <= i
             IN  SubSeq(s, first, last)

\* str.split(','): the pieces between commas, empty pieces included
RECURSIVE split(_)
split(s) ==
    LET commas == {i \in 1..Len(s) : s[i] = ","}
    IN  IF commas = {} THEN <<s>>
        ELSE LET k == CHOOSE i \in commas : \A j \in commas : i <= j
             IN  <<SubSeq(s, 1, k-1)>> \o split(SubSeq(s, k+1, Len(s)))

\* the Python test  keyword in text
Contains(keyword, text) ==
    \E i \in 1..(Len(text) - Len(keyword) + 1) :
        SubSeq(text, i, i + Len(keyword) - 1) = keyword

\* any(keyword in text for keyword in keywords)
AnyIn(keywords, text) ==
    \E k \in 1..Len(keywords) : Contains(keywords[k], text)

----------------------------------------------------------------------------
(* Topic guard *)

off_topic_keywords ==
    << <<"w","e","a","t","h","e","r">>,
       <<"n","e","w","s">>,
       <<"j","o","k","e">>,
       <<"s","t","o","r","y">>,
       <<"r","e","c","i","p","e">>,
       <<"m","u","s","i","c">>,
       <<"m","o","v","i","e">>,
       <<"g","a","m","e">>,
       <<"s","p","o","r","t","s">>,
       <<"p","o","l","i","t","i","c","s">>,
       <<"r","e","l","i","g","i","o","n">>,
       <<"h","e","a","l","t","h">>,
       <<"m","e","d","i","c","a","l">>,
       <<"c","o","d","e">>,
       <<"p","r","o","g","r","a","m","m","i","n","g">>,
       <<"m","a","t","h">>,
       <<"c","a","l","c","u","l","a","t","e">>,
       <<"t","r","a","n","s","l","a","t","e">>,
       <<"h","o","w"," ","t","o">>,
       <<"w","h","a","t"," ","i","s">>,
       <<"w","h","o"," ","i","s">>,
       <<"w","h","e","n"," ","i","s">>,
       <<"w","h","e","r","e"," ","i","s">>,
       <<"w","h","y"," ","i","s">>,
       <<"h","e","l","p"," ","m","e">>,
       <<"c","a","n"," ","y","o","u">>,
       <<"t","e","l","l"," ","m","e"," ","a","b","o","u","t">>,
       <<"e","x","p","l","a","i","n">> >>

work_keywords ==
    << <<"w","o","r","k">>,
       <<"j","o","b">>,
       <<"o","f","f","i","c","e">>,
       <<"d","o","c","u","m","e","n","t">>,
       <<"w","o","r","d">>,
       <<"t","e","r","m">>,
       <<"m","e","m","o">>,
       <<"r","e","p","o","r","t">>,
       <<"d","e","p","a","r","t","m","e","n","t">> >>

\* mutant of is_off_topic: the keywords are looked up in the input as typed
is_off_topic_NoLower(user_input) ==
    LET input_lower      == user_input
        has_off_topic    == AnyIn(off_topic_keywords, input_lower)
        has_work_context == AnyIn(work_keywords, input_lower)
    IN  has_off_topic /\ ~has_work_context

is_off_topic(user_input) ==
    LET input_lower      == lower(user_input)
        has_off_topic    == AnyIn(off_topic_keywords, input_lower)
        has_work_context == AnyIn(work_keywords, input_lower)
    IN  has_off_topic /\ ~has_work_context

----------------------------------------------------------------------------
(* Literals: labels, words and the utterances the user may type *)

L_Internal == <<"I","n","t","e","r","n","a","l">>

L_Public == <<"P","u","b","l","i","c">>

L_Confidential == <<"C","o","n","f","i","d","e","n","t","i","a","l">>

classification_options == <<L_Internal, L_Public, L_Confidential>>

W_invoice == <<"i","n","v","o","i","c","e">>

W_ledger == <<"l","e","d","g","e","r">>

W_ccc == <<"c","c","c">>

W_dddd == <<"d","d","d","d">>

W_memo == <<"m","e","m","o">>

U_Finance == <<"F","i","n","a","n","c","e">>

U_InvoiceLedger == <<"i","n","v","o","i","c","e",","," ","l","e","d","g","e","r">>

U_Internal == <<"I","n","t","e","r","n","a","l">>

U_Confidential == <<"C","o","n","f","i","d","e","n","t","i","a","l">>

U_download == <<"d","o","w","n","l","o","a","d">>

U_joke == <<"j","o","k","e">>

U_restart == <<"r","e","s","t","a","r","t">>

U_more == <<"m","o","r","e">>

U_HR == <<"H","R">>

U_abcd == <<"a",","," ","b","b",","," ","c","c","c",","," ","d","d","d","d">>

U_memo_memo == <<"m","e","m","o",","," ","m","e","m","o">>

U_public == <<" ","p","u","b","l","i","c"," ">>

U_what_is_memo == <<"w","h","a","t"," ","i","s"," ","a"," ","m","e","m","o">>

U_joke_list == <<"j","o","k","e",","," ","a">>

U_restart_more == <<"r","e","s","t","a","r","t"," ","m","o","r","e">>

U_Tell_JOKE == <<"T","e","l","l"," ","a"," ","J","O","K","E">>

U_What_Is_MEMO == <<"W","h","a","t"," ","I","s"," ","A"," ","M","E","M","O">>

U_download_restart ==
    <<"d","o","w","n","l","o","a","d",","," ","t","h","e","n"," ",
      "r","e","s","t","a","r","t">>

\* every utterance of the model
Vocabulary ==
    { U_Finance, U_InvoiceLedger, U_Internal, U_Confidential, U_download,
      U_joke, U_restart, U_more, U_HR, U_abcd, U_memo_memo, U_public,
      U_what_is_memo, U_joke_list, U_restart_more, U_Tell_JOKE,
      U_What_Is_MEMO, U_download_restart }

\* the utterances of the main dialogue
MainUtterances ==
    { U_HR, U_InvoiceLedger, U_Internal, U_Confidential, U_download,
      U_joke, U_restart, U_more }

\* the utterances of the end-to-end scenario, and an off-topic one
ScenarioUtterances ==
    { U_Finance, U_InvoiceLedger, U_Internal, U_Confidential, U_download,
      U_joke }

\* the utterances that exercise splitting, trimming and filtering
WordUtterances ==
    { U_HR, U_abcd, U_memo_memo, U_public, U_joke_list, U_restart_more,
      U_restart, U_download }

\* the utterances of the credential specification
KeyUtterances == { U_HR, U_joke }

\* the utterances of a conversation of several rounds and sessions
RoundUtterances == { U_Internal, U_InvoiceLedger, U_more, U_restart }

\* the utterances typed at a session whose state was edited from outside
TamperUtterances == { U_Internal, U_HR, U_joke }

\* the utterances that exercise the topic guard: markers of both lists in
\* lower and in upper case
TopicUtterances ==
    { U_HR, U_joke, U_what_is_memo, U_Tell_JOKE, U_What_Is_MEMO }

----------------------------------------------------------------------------
(* Per-utterance computations of the handler, evaluated once per utterance *)

\* mutant of extract_words: the length filter keeps words of two characters
extract_words_KeepsTwo(user_input) ==
    LET pieces  == split(user_input)
        words   == [i \in 1..Len(pieces) |-> strip(pieces[i])]
        long(w) == Len(w) >= 2
    IN  SelectSeq(words, long)

\* words = [word.strip() for word in user_input.split(',')]
\* words = [word for word in words if len(word) > 2]
extract_words(user_input) ==
    LET pieces  == split(user_input)
        words   == [i \in 1..Len(pieces) |-> strip(pieces[i])]
        long(w) == Len(w) > 2
    IN  SelectSeq(words, long)

\* classification = user_input.strip().title()
classification_of(user_input) == title(strip(user_input))

\* classification in classification_options
IsOption(classification) ==
    \E i \in 1..Len(classification_options) :
        classification_options[i] = classification

\* option = user_input.lower().strip()
option_of(user_input) == strip(lower(user_input))

OffTopic == [u \in Vocabulary |-> is_off_topic(u)]

Words == [u \in Vocabulary |-> extract_words(u)]

Classification == [u \in Vocabulary |-> classification_of(u)]

Option == [u \in Vocabulary |-> option_of(u)]

kw_more == <<"m","o","r","e">>

kw_download == <<"d","o","w","n","l","o","a","d">>

kw_restart == <<"r","e","s","t","a","r","t">>

HasMore == [u \in Vocabulary |-> Contains(kw_more, Option[u])]

HasDownload == [u \in Vocabulary |-> Contains(kw_download, Option[u])]

HasRestart == [u \in Vocabulary |-> Contains(kw_restart, Option[u])]

----------------------------------------------------------------------------
(* State *)

VARIABLES
    conversation_stage,      \* st.session_state.conversation_stage
    user_department,         \* st.session_state.user_department
    collected_words,         \* st.session_state.collected_words
    pending_classification,  \* st.session_state.pending_classification
    classified_words,        \* st.session_state.classified_words
    chat_history,            \* st.session_state.chat_history
    ready_for_download,      \* st.session_state.ready_for_download (FALSE: key not set)
    secrets,                 \* st.secrets: outcome of reading "GEMINI_API_KEY"
    environ,                 \* os.environ: GEMINI_API_KEY
    manual_key,              \* value of the "Enter Gemini API Key:" text input
    config_ok,               \* whether genai.configure / GenerativeModel succeed
    clock,                   \* the latest reading of datetime.now()
    export_files,            \* which of excel_file, json_file the last run produced
    export_notice,           \* messages the last script run showed for the export
    exception,               \* uncaught exception of the last script run
    round                    \* history: the collection round in progress

session == <<conversation_stage, user_department, collected_words,
             pending_classification, classified_words, chat_history>>

credentials == <<secrets, environ, manual_key, config_ok>>

vars == <<conversation_stage, user_department, collected_words,
          pending_classification, classified_words, chat_history,
          ready_for_download, secrets, environ, manual_key, config_ok,
          clock, export_files, export_notice, exception, round>>

Stages == {"initial", "collect_words", "classify_words", "final_options"}

----------------------------------------------------------------------------
(* Credential lookup and model configuration *)

SecretsStates ==
    { [status |-> "KeyError",  value |-> ""],
      [status |-> "Exception", value |-> ""],
      [status |-> "ok",        value |-> ""],
      [status |-> "ok",        value |-> "S"] }

EnvironStates ==
    { [set |-> FALSE, value |-> ""],
      [set |-> TRUE,  value |-> ""],
      [set |-> TRUE,  value |-> "E"] }

ManualKeys == {"", "M"}

\* the manual text input is rendered only when methods 1 and 2 return nothing
ManualInputShown ==
    /\ secrets.status # "ok"
    /\ ~(environ.set /\ environ.value # "")

get_api_key ==
    IF secrets.status = "ok" THEN secrets.value
    ELSE IF environ.set /\ environ.value # "" THEN environ.value
    ELSE manual_key

\* model = None unless api_key is truthy and the configuration succeeds
model == get_api_key # "" /\ config_ok

----------------------------------------------------------------------------
(* Responses and chat entries *)

Response(t, a) == [template |-> t, args |-> a]

REFUSAL == Response("refusal", <<>>)

REFUSAL_DEPARTMENT == Response("refusal_department", <<>>)

FALLBACK == Response("fallback", <<>>)

REPROMPT_WORDS == Response("reprompt_words", <<>>)

ALL_CLASSIFIED == Response("all_classified", <<>>)

MORE_WORDS == Response("more_words", <<>>)

PREPARING_DOWNLOADS == Response("preparing_downloads", <<>>)

FINAL_HELP == Response("final_help", <<>>)

GREETING == Response("greeting", <<>>)

UserMessage(u) == [role |-> "user", content |-> u]

AssistantMessage(r) == [role |-> "assistant", content |-> r]

\* chat_history after the user message and the response were appended
Exchange(u, r) == chat_history \o <<UserMessage(u), AssistantMessage(r)>>

\* the greeting block at the end of a script run
WithGreeting(history, has_model) ==
    IF history = <<>> /\ has_model
    THEN <<AssistantMessage(GREETING)>>
    ELSE history

----------------------------------------------------------------------------
(* Initial states *)

InitSession ==
    /\ conversation_stage = "initial"
    /\ user_department = <<>>
    /\ collected_words = <<>>
    /\ pending_classification = <<>>
    /\ classified_words = <<>>
    /\ chat_history = WithGreeting(<<>>, model)
    /\ ready_for_download = FALSE

InitEnvironment ==
    /\ manual_key = ""
    /\ clock = 0
    /\ export_files = {}
    /\ export_notice = {}
    /\ exception = "none"
    /\ round = [words |-> <<>>, base |-> 0, start |-> 0, mark |-> 0]

\* a deployment with the key in the secrets store
Init ==
    /\ secrets = [status |-> "ok", value |-> "S"]
    /\ environ = [set |-> FALSE, value |-> ""]
    /\ config_ok = TRUE
    /\ InitEnvironment
    /\ InitSession

\* every combination of the credential sources
InitKey ==
    /\ secrets \in SecretsStates
    /\ environ \in EnvironStates
    /\ config_ok \in BOOLEAN
    /\ InitEnvironment
    /\ InitSession

----------------------------------------------------------------------------
(* The utterance handler: "if user_input and model:" and its branches *)

\* what every script run that is not an export run leaves behind
RunFrame ==
    /\ export_files' = {}
    /\ export_notice' = {}
    /\ exception' = "none"
    /\ UNCHANGED credentials

\* datetime.now(): the wall clock does not run backwards
Now == clock..MaxClock

\* "if user_input and model": an utterance was typed and a model is configured
Accepted(u) == model

\* mutant of IgnoredUtterance: the user message is appended before the model
\* is tested
IgnoredUtterance_Processes(u) ==
    /\ ~model
    /\ chat_history' = Append(chat_history, UserMessage(u))
    /\ UNCHANGED <<conversation_stage, user_department, collected_words,
                   pending_classification, classified_words,
                   ready_for_download, round>>
    /\ UNCHANGED clock
    /\ RunFrame

\* no model: the handler is skipped and the run only redraws the page
IgnoredUtterance(u) ==
    /\ ~model
    /\ chat_history' = WithGreeting(chat_history, model)
    /\ UNCHANGED <<conversation_stage, user_department, collected_words,
                   pending_classification, classified_words,
                   ready_for_download, round>>
    /\ UNCHANGED clock
    /\ RunFrame

\* mutant of OffTopicRefusal: the refusal sends the conversation back to the
\* collection of words
OffTopicRefusal_Recollects(u) ==
    /\ Accepted(u)
    /\ OffTopic[u] /\ conversation_stage # "initial"
    /\ chat_history' = Exchange(u, REFUSAL)
    /\ conversation_stage' = "collect_words"
    /\ UNCHANGED <<user_department, collected_words,
                   pending_classification, classified_words,
                   ready_for_download, round>>
    /\ UNCHANGED clock
    /\ RunFrame

\* off-topic outside the initial stage: the fixed refusal
OffTopicRefusal(u) ==
    /\ Accepted(u)
    /\ OffTopic[u] /\ conversation_stage # "initial"
    /\ chat_history' = Exchange(u, REFUSAL)
    /\ UNCHANGED <<conversation_stage, user_department, collected_words,
                   pending_classification, classified_words,
                   ready_for_download, round>>
    /\ UNCHANGED clock
    /\ RunFrame

\* initial stage, off-topic: refusal that repeats the department question
InitialOffTopic(u) ==
    /\ Accepted(u)
    /\ conversation_stage = "initial"
    /\ OffTopic[u]
    /\ chat_history' = Exchange(u, REFUSAL_DEPARTMENT)
    /\ UNCHANGED <<conversation_stage, user_department, collected_words,
                   pending_classification, classified_words,
                   ready_for_download, round>>
    /\ UNCHANGED clock
    /\ RunFrame

\* initial stage: the utterance is the department
InitialDepartment(u) ==
    /\ Accepted(u)
    /\ conversation_stage = "initial"
    /\ ~OffTopic[u]
    /\ user_department' = u
    /\ conversation_stage' = "collect_words"
    /\ chat_history' = Exchange(u, Response("ask_words", <<u>>))
    /\ UNCHANGED <<collected_words, pending_classification, classified_words,
                   ready_for_download, round>>
    /\ UNCHANGED clock
    /\ RunFrame

\* mutant of CollectWords: the batch replaces collected_words instead of
\* extending it
CollectWords_Replaces(u, now) ==
    /\ Accepted(u)
    /\ ~(OffTopic[u] /\ conversation_stage # "initial")
    /\ conversation_stage = "collect_words"
    /\ LET words == Words[u]
       IN  /\ words # <<>> /\ ~OffTopic[u]
           /\ collected_words' = words
           /\ pending_classification' = words
           /\ conversation_stage' = "classify_words"
           /\ chat_history' =
                  Exchange(u, Response("ask_classification", <<words, words[1]>>))
           /\ clock' = now
           /\ round' = [words |-> words, base |-> Len(classified_words),
                        start |-> now, mark |-> Len(chat_history')]
    /\ UNCHANGED <<user_department, classified_words, ready_for_download>>
    /\ RunFrame

\* collect_words: a non-empty batch of an on-topic utterance is queued; the
\* round starts at the time now of this run
CollectWords(u, now) ==
    /\ Accepted(u)
    /\ ~(OffTopic[u] /\ conversation_stage # "initial")
    /\ conversation_stage = "collect_words"
    /\ LET words == Words[u]
       IN  /\ words # <<>> /\ ~OffTopic[u]
           /\ collected_words' = collected_words \o words
           /\ pending_classification' = words
           /\ conversation_stage' = "classify_words"
           /\ chat_history' =
                  Exchange(u, Response("ask_classification", <<words, words[1]>>))
           /\ clock' = now
           /\ round' = [words |-> words, base |-> Len(classified_words),
                        start |-> now, mark |-> Len(chat_history')]
    /\ UNCHANGED <<user_department, classified_words, ready_for_download>>
    /\ RunFrame

\* mutant of CollectReprompt: the stage advances although nothing was queued
CollectReprompt_Advances(u) ==
    /\ Accepted(u)
    /\ ~(OffTopic[u] /\ conversation_stage # "initial")
    /\ conversation_stage = "collect_words"
    /\ ~(Words[u] # <<>> /\ ~OffTopic[u])
    /\ chat_history' = Exchange(u, REPROMPT_WORDS)
    /\ conversation_stage' = "classify_words"
    /\ UNCHANGED <<user_department, collected_words,
                   pending_classification, classified_words,
                   ready_for_download, round>>
    /\ UNCHANGED clock
    /\ RunFrame

\* collect_words: nothing usable in the utterance
CollectReprompt(u) ==
    /\ Accepted(u)
    /\ ~(OffTopic[u] /\ conversation_stage # "initial")
    /\ conversation_stage = "collect_words"
    /\ ~(Words[u] # <<>> /\ ~OffTopic[u])
    /\ chat_history' = Exchange(u, REPROMPT_WORDS)
    /\ UNCHANGED <<conversation_stage, user_department, collected_words,
                   pending_classification, classified_words,
                   ready_for_download, round>>
    /\ UNCHANGED clock
    /\ RunFrame

\* mutant of classified_word: the record takes the word as its department
classified_word_WordAsDepartment(current_word, classification, now) ==
    [word |-> current_word,
     classification |-> classification,
     department |-> current_word,
     timestamp |-> now]

\* the record appended for current_word
classified_word(current_word, classification, now) ==
    [word |-> current_word,
     classification |-> classification,
     department |-> user_department,
     timestamp |-> now]

\* mutant of ClassifyValid: pop() instead of pop(0) removes the last word
ClassifyValid_PopsLast(u, now) ==
    /\ Accepted(u)
    /\ ~(OffTopic[u] /\ conversation_stage # "initial")
    /\ conversation_stage = "classify_words"
    /\ pending_classification # <<>>
    /\ LET current_word   == pending_classification[1]
           classification == Classification[u]
           rest           == SubSeq(pending_classification, 1,
                                    Len(pending_classification) - 1)
       IN  /\ IsOption(classification)
           /\ classified_words' =
                  Append(classified_words,
                         classified_word(current_word, classification, now))
           /\ clock' = now
           /\ pending_classification' = rest
           /\ IF rest # <<>>
              THEN /\ chat_history' =
                          Exchange(u, Response("classified_next",
                                       <<current_word, classification, rest[1]>>))
                   /\ UNCHANGED conversation_stage
              ELSE /\ chat_history' = Exchange(u, ALL_CLASSIFIED)
                   /\ conversation_stage' = "final_options"
    /\ UNCHANGED <<user_department, collected_words, ready_for_download, round>>
    /\ RunFrame

\* mutant of ClassifyValid: the classified word is read from the front of the
\* queue but not taken off it
ClassifyValid_KeepsQueue(u, now) ==
    /\ Accepted(u)
    /\ ~(OffTopic[u] /\ conversation_stage # "initial")
    /\ conversation_stage = "classify_words"
    /\ pending_classification # <<>>
    /\ LET current_word   == pending_classification[1]
           classification == Classification[u]
           rest           == pending_classification
       IN  /\ IsOption(classification)
           /\ classified_words' =
                  Append(classified_words,
                         classified_word(current_word, classification, now))
           /\ clock' = now
           /\ pending_classification' = rest
           /\ IF rest # <<>>
              THEN /\ chat_history' =
                          Exchange(u, Response("classified_next",
                                       <<current_word, classification, rest[1]>>))
                   /\ UNCHANGED conversation_stage
              ELSE /\ chat_history' = Exchange(u, ALL_CLASSIFIED)
                   /\ conversation_stage' = "final_options"
    /\ UNCHANGED <<user_department, collected_words, ready_for_download, round>>
    /\ RunFrame

\* mutant of ClassifyValid: the conversation moves on to the final options
\* while one word is still queued ("if len(pending) > 1")
ClassifyValid_EarlyFinal(u, now) ==
    /\ Accepted(u)
    /\ ~(OffTopic[u] /\ conversation_stage # "initial")
    /\ conversation_stage = "classify_words"
    /\ pending_classification # <<>>
    /\ LET current_word   == pending_classification[1]
           classification == Classification[u]
           rest           == Tail(pending_classification)
       IN  /\ IsOption(classification)
           /\ classified_words' =
                  Append(classified_words,
                         classified_word(current_word, classification, now))
           /\ clock' = now
           /\ pending_classification' = rest
           /\ IF Len(rest) > 1
              THEN /\ chat_history' =
                          Exchange(u, Response("classified_next",
                                       <<current_word, classification, rest[1]>>))
                   /\ UNCHANGED conversation_stage
              ELSE /\ chat_history' = Exchange(u, ALL_CLASSIFIED)
                   /\ conversation_stage' = "final_options"
    /\ UNCHANGED <<user_department, collected_words, ready_for_download, round>>
    /\ RunFrame

\* classify_words: a valid label classifies the front of the queue
ClassifyValid(u, now) ==
    /\ Accepted(u)
    /\ ~(OffTopic[u] /\ conversation_stage # "initial")
    /\ conversation_stage = "classify_words"
    /\ pending_classification # <<>>
    /\ LET current_word   == pending_classification[1]
           classification == Classification[u]
           rest           == Tail(pending_classification)
       IN  /\ IsOption(classification)
           /\ classified_words' =
                  Append(classified_words,
                         classified_word(current_word, classification, now))
           /\ clock' = now
           /\ pending_classification' = rest
           /\ IF rest # <<>>
              THEN /\ chat_history' =
                          Exchange(u, Response("classified_next",
                                       <<current_word, classification, rest[1]>>))
                   /\ UNCHANGED conversation_stage
              ELSE /\ chat_history' = Exchange(u, ALL_CLASSIFIED)
                   /\ conversation_stage' = "final_options"
    /\ UNCHANGED <<user_department, collected_words, ready_for_download, round>>
    /\ RunFrame

\* mutant of ClassifyInvalid: the word that got no label is dropped
ClassifyInvalid_Skips(u) ==
    /\ Accepted(u)
    /\ ~(OffTopic[u] /\ conversation_stage # "initial")
    /\ conversation_stage = "classify_words"
    /\ pending_classification # <<>>
    /\ ~IsOption(Classification[u])
    /\ chat_history' =
           Exchange(u, Response("invalid_classification",
                                <<pending_classification[1]>>))
    /\ pending_classification' = Tail(pending_classification)
    /\ UNCHANGED <<conversation_stage, user_department, collected_words,
                   classified_words, ready_for_download, round>>
    /\ UNCHANGED clock
    /\ RunFrame

\* classify_words: not a label, the word is asked again
ClassifyInvalid(u) ==
    /\ Accepted(u)
    /\ ~(OffTopic[u] /\ conversation_stage # "initial")
    /\ conversation_stage = "classify_words"
    /\ pending_classification # <<>>
    /\ ~IsOption(Classification[u])
    /\ chat_history' =
           Exchange(u, Response("invalid_classification",
                                <<pending_classification[1]>>))
    /\ UNCHANGED <<conversation_stage, user_department, collected_words,
                   pending_classification, classified_words,
                   ready_for_download, round>>
    /\ UNCHANGED clock
    /\ RunFrame

\* classify_words with an empty queue: no branch assigns bot_response, the
\* append of the response raises NameError and the run ends without a rerun
ClassifyEmptyQueue(u) ==
    /\ Accepted(u)
    /\ ~(OffTopic[u] /\ conversation_stage # "initial")
    /\ conversation_stage = "classify_words"
    /\ pending_classification = <<>>
    /\ chat_history' = Append(chat_history, UserMessage(u))
    /\ exception' = "NameError"
    /\ export_files' = {}
    /\ export_notice' = {}
    /\ UNCHANGED <<conversation_stage, user_department, collected_words,
                   pending_classification, classified_words,
                   ready_for_download, round, credentials, clock>>

\* mutant of FinalMore: asking for more words empties collected_words
FinalMore_ClearsCollected(u) ==
    /\ Accepted(u)
    /\ ~(OffTopic[u] /\ conversation_stage # "initial")
    /\ conversation_stage = "final_options"
    /\ HasMore[u]
    /\ conversation_stage' = "collect_words"
    /\ collected_words' = <<>>
    /\ chat_history' = Exchange(u, MORE_WORDS)
    /\ UNCHANGED <<user_department, pending_classification,
                   classified_words, ready_for_download, round>>
    /\ UNCHANGED clock
    /\ RunFrame

\* mutant of FinalMore: asking for more words goes back to the classification
FinalMore_ToClassify(u) ==
    /\ Accepted(u)
    /\ ~(OffTopic[u] /\ conversation_stage # "initial")
    /\ conversation_stage = "final_options"
    /\ HasMore[u]
    /\ conversation_stage' = "classify_words"
    /\ chat_history' = Exchange(u, MORE_WORDS)
    /\ UNCHANGED <<user_department, collected_words, pending_classification,
                   classified_words, ready_for_download, round>>
    /\ UNCHANGED clock
    /\ RunFrame

\* final_options: 'more' in option
FinalMore(u) ==
    /\ Accepted(u)
    /\ ~(OffTopic[u] /\ conversation_stage # "initial")
    /\ conversation_stage = "final_options"
    /\ HasMore[u]
    /\ conversation_stage' = "collect_words"
    /\ chat_history' = Exchange(u, MORE_WORDS)
    /\ UNCHANGED <<user_department, collected_words, pending_classification,
                   classified_words, ready_for_download, round>>
    /\ UNCHANGED clock
    /\ RunFrame

\* final_options: 'download' in option
FinalDownload(u) ==
    /\ Accepted(u)
    /\ ~(OffTopic[u] /\ conversation_stage # "initial")
    /\ conversation_stage = "final_options"
    /\ ~HasMore[u] /\ HasDownload[u]
    /\ ready_for_download' = TRUE
    /\ chat_history' = Exchange(u, PREPARING_DOWNLOADS)
    /\ UNCHANGED <<conversation_stage, user_department, collected_words,
                   pending_classification, classified_words, round>>
    /\ UNCHANGED clock
    /\ RunFrame

\* mutant of FinalRestart: 'classified_words' is missing from the deleted keys
FinalRestart_KeepsRecords(u) ==
    /\ Accepted(u)
    /\ ~(OffTopic[u] /\ conversation_stage # "initial")
    /\ conversation_stage = "final_options"
    /\ ~HasMore[u] /\ ~HasDownload[u] /\ HasRestart[u]
    /\ conversation_stage' = "initial"
    /\ user_department' = <<>>
    /\ collected_words' = <<>>
    /\ pending_classification' = <<>>
    /\ chat_history' = WithGreeting(<<>>, model)
    /\ UNCHANGED <<classified_words, ready_for_download, round>>
    /\ UNCHANGED clock
    /\ RunFrame

\* mutant of FinalRestart: 'restart' is tested before 'more' and 'download'
FinalRestart_First(u) ==
    /\ Accepted(u)
    /\ ~(OffTopic[u] /\ conversation_stage # "initial")
    /\ conversation_stage = "final_options"
    /\ HasRestart[u]
    /\ conversation_stage' = "initial"
    /\ user_department' = <<>>
    /\ collected_words' = <<>>
    /\ pending_classification' = <<>>
    /\ classified_words' = <<>>
    /\ chat_history' = WithGreeting(<<>>, model)
    /\ UNCHANGED <<ready_for_download, round>>
    /\ UNCHANGED clock
    /\ RunFrame

\* final_options: 'restart' in option; the six keys are deleted, st.rerun()
\* starts a run that sets the defaults again and appends the greeting
FinalRestart(u) ==
    /\ Accepted(u)
    /\ ~(OffTopic[u] /\ conversation_stage # "initial")
    /\ conversation_stage = "final_options"
    /\ ~HasMore[u] /\ ~HasDownload[u] /\ HasRestart[u]
    /\ conversation_stage' = "initial"
    /\ user_department' = <<>>
    /\ collected_words' = <<>>
    /\ pending_classification' = <<>>
    /\ classified_words' = <<>>
    /\ chat_history' = WithGreeting(<<>>, model)
    /\ UNCHANGED <<ready_for_download, round>>
    /\ UNCHANGED clock
    /\ RunFrame

\* final_options: none of the three commands
FinalHelp(u) ==
    /\ Accepted(u)
    /\ ~(OffTopic[u] /\ conversation_stage # "initial")
    /\ conversation_stage = "final_options"
    /\ ~HasMore[u] /\ ~HasDownload[u] /\ ~HasRestart[u]
    /\ chat_history' = Exchange(u, FINAL_HELP)
    /\ UNCHANGED <<conversation_stage, user_department, collected_words,
                   pending_classification, classified_words,
                   ready_for_download, round>>
    /\ UNCHANGED clock
    /\ RunFrame

\* a stage that is none of the four: the final else
UnknownStage(u) ==
    /\ Accepted(u)
    /\ ~(OffTopic[u] /\ conversation_stage # "initial")
    /\ conversation_stage \notin Stages
    /\ chat_history' = Exchange(u, FALLBACK)
    /\ UNCHANGED <<conversation_stage, user_department, collected_words,
                   pending_classification, classified_words,
                   ready_for_download, round>>
    /\ UNCHANGED clock
    /\ RunFrame

----------------------------------------------------------------------------
(* Other events *)

\* mutant of export_messages: "if excel_file or json_file" reports success
\* when one file was written
export_messages_Either(excel_ok, json_ok) ==
    (IF excel_ok THEN {} ELSE {"Error saving to Excel"})
    \cup (IF json_ok THEN {} ELSE {"Error saving to JSON"})
    \cup (IF excel_ok \/ json_ok
          THEN {"Files generated successfully!"}
          ELSE {"Error generating files"})

\* the messages the "Generate Downloads" block shows
export_messages(excel_ok, json_ok) ==
    (IF excel_ok THEN {} ELSE {"Error saving to Excel"})
    \cup (IF json_ok THEN {} ELSE {"Error saving to JSON"})
    \cup (IF excel_ok /\ json_ok
          THEN {"Files generated successfully!"}
          ELSE {"Error generating files"})

\* the sidebar button, drawn whenever classified_words is not empty;
\* save_to_excel and save_to_json each succeed or catch their exception
GenerateDownloads(excel_ok, json_ok) ==
    /\ classified_words # <<>>
    /\ export_files' = (IF excel_ok THEN {"excel_file"} ELSE {})
                        \cup (IF json_ok THEN {"json_file"} ELSE {})
    /\ export_notice' = export_messages(excel_ok, json_ok)
    /\ exception' = "none"
    /\ chat_history' = WithGreeting(chat_history, model)
    /\ UNCHANGED <<conversation_stage, user_department, collected_words,
                   pending_classification, classified_words,
                   ready_for_download, round, credentials, clock>>

\* the user types into (or clears) the manual key input; the script reruns
EnterManualKey(k) ==
    /\ ManualInputShown
    /\ k # manual_key
    /\ manual_key' = k
    /\ UNCHANGED <<secrets, environ, config_ok>>
    /\ chat_history' = WithGreeting(chat_history, model')
    /\ export_files' = {}
    /\ export_notice' = {}
    /\ exception' = "none"
    /\ UNCHANGED <<conversation_stage, user_department, collected_words,
                   pending_classification, classified_words,
                   ready_for_download, round, clock>>

----------------------------------------------------------------------------
(* Specifications *)

\* chat_history stays within max after the step
Within(max) == Len(chat_history') <= max

\* the branches of the handler a session built by the code can take, explored
\* while chat_history stays within max
Dialogue(u, max) ==
    \/ OffTopicRefusal(u) /\ Within(max)
    \/ InitialOffTopic(u) /\ Within(max)
    \/ InitialDepartment(u) /\ Within(max)
    \/ \E now \in Now : CollectWords(u, now) /\ Within(max)
    \/ CollectReprompt(u) /\ Within(max)
    \/ \E now \in Now : ClassifyValid(u, now) /\ Within(max)
    \/ ClassifyInvalid(u) /\ Within(max)
    \/ FinalMore(u) /\ Within(max)
    \/ FinalDownload(u) /\ Within(max)
    \/ FinalRestart(u) /\ Within(max)
    \/ FinalHelp(u) /\ Within(max)

Next ==
    \/ \E u \in MainUtterances : Dialogue(u, MaxHistory)
    \/ \E excel_ok, json_ok \in BOOLEAN : GenerateDownloads(excel_ok, json_ok)

Spec == Init /\ [][Next]_vars

\* the same program, typed at with the word-list utterances
NextWords ==
    \/ \E u \in WordUtterances : Dialogue(u, MaxHistory)
    \/ \E excel_ok, json_ok \in BOOLEAN : GenerateDownloads(excel_ok, json_ok)

SpecWords == Init /\ [][NextWords]_vars

\* the same program, typed at with the utterances of the end-to-end scenario
\* in any order; these are the branches of Dialogue such utterances can
\* take (each has a word of more than two characters, none contains 'more'
\* or 'restart')
NextScenario ==
    \/ \E u \in ScenarioUtterances : OffTopicRefusal(u) /\ Within(MaxScenario)
    \/ \E u \in ScenarioUtterances : InitialOffTopic(u) /\ Within(MaxScenario)
    \/ \E u \in ScenarioUtterances : InitialDepartment(u) /\ Within(MaxScenario)
    \/ \E u \in ScenarioUtterances, now \in Now :
          CollectWords(u, now) /\ Within(MaxScenario)
    \/ \E u \in ScenarioUtterances, now \in Now :
          ClassifyValid(u, now) /\ Within(MaxScenario)
    \/ \E u \in ScenarioUtterances : ClassifyInvalid(u) /\ Within(MaxScenario)
    \/ \E u \in ScenarioUtterances : FinalDownload(u) /\ Within(MaxScenario)
    \/ \E u \in ScenarioUtterances : FinalHelp(u) /\ Within(MaxScenario)
    \/ \E excel_ok, json_ok \in BOOLEAN : GenerateDownloads(excel_ok, json_ok)

SpecScenario == Init /\ [][NextScenario]_vars

\* the start of a conversation under every combination of credential sources
NextKey ==
    \/ \E u \in KeyUtterances : IgnoredUtterance(u)
    \/ \E u \in KeyUtterances : InitialOffTopic(u) /\ Within(MaxHistory)
    \/ \E u \in KeyUtterances : InitialDepartment(u) /\ Within(MaxHistory)
    \/ \E u \in KeyUtterances : CollectReprompt(u) /\ Within(MaxHistory)
    \/ \E u \in KeyUtterances : OffTopicRefusal(u) /\ Within(MaxHistory)
    \/ \E k \in ManualKeys : EnterManualKey(k)

SpecKey == InitKey /\ [][NextKey]_vars

\* the same program, typed at with the utterances of the topic guard; these
\* are the branches of Dialogue such utterances can take (none is a label,
\* so the queue is never drained)
NextTopic ==
    \/ \E u \in TopicUtterances : OffTopicRefusal(u) /\ Within(MaxHistory)
    \/ \E u \in TopicUtterances : InitialOffTopic(u) /\ Within(MaxHistory)
    \/ \E u \in TopicUtterances : InitialDepartment(u) /\ Within(MaxHistory)
    \/ \E u \in TopicUtterances, now \in Now :
          CollectWords(u, now) /\ Within(MaxHistory)
    \/ \E u \in TopicUtterances : CollectReprompt(u) /\ Within(MaxHistory)
    \/ \E u \in TopicUtterances : ClassifyInvalid(u) /\ Within(MaxHistory)

SpecTopic == Init /\ [][NextTopic]_vars

\* the same program over several rounds of collection and several sessions;
\* these are the branches of Dialogue such utterances can take (none is
\* off-topic, each has a word of more than two characters, none contains
\* 'download')
NextRounds ==
    \/ \E u \in RoundUtterances : InitialDepartment(u) /\ Within(MaxRounds)
    \/ \E u \in RoundUtterances, now \in Now :
          CollectWords(u, now) /\ Within(MaxRounds)
    \/ \E u \in RoundUtterances, now \in Now :
          ClassifyValid(u, now) /\ Within(MaxRounds)
    \/ \E u \in RoundUtterances : ClassifyInvalid(u) /\ Within(MaxRounds)
    \/ \E u \in RoundUtterances : FinalMore(u) /\ Within(MaxRounds)
    \/ \E u \in RoundUtterances : FinalRestart(u) /\ Within(MaxRounds)
    \/ \E u \in RoundUtterances : FinalHelp(u) /\ Within(MaxRounds)
    \/ \E excel_ok, json_ok \in BOOLEAN : GenerateDownloads(excel_ok, json_ok)

SpecRounds == Init /\ [][NextRounds]_vars

\* a session whose stage was edited from outside the program: the stage is
\* classify_words although nothing is queued, or it is none of the four
InitTamper ==
    /\ secrets = [status |-> "ok", value |-> "S"]
    /\ environ = [set |-> FALSE, value |-> ""]
    /\ config_ok = TRUE
    /\ InitEnvironment
    /\ conversation_stage \in {"classify_words", "archived"}
    /\ user_department \in {<<>>, U_HR}
    /\ collected_words \in {<<>>, <<W_invoice>>}
    /\ pending_classification = <<>>
    /\ classified_words = <<>>
    /\ chat_history = <<AssistantMessage(GREETING)>>
    /\ ready_for_download = FALSE

\* the branches of the handler such a session can take
NextTamper ==
    \/ \E u \in TamperUtterances : OffTopicRefusal(u) /\ Within(MaxHistory)
    \/ \E u \in TamperUtterances : ClassifyEmptyQueue(u) /\ Within(MaxHistory)
    \/ \E u \in TamperUtterances : UnknownStage(u) /\ Within(MaxHistory)

SpecTamper == InitTamper /\ [][NextTamper]_vars

----------------------------------------------------------------------------
(* Reading a step off chat_history *)

\* the handler ran to its end on utterance u in this step
Processed(u) ==
    /\ Len(chat_history') = Len(chat_history) + 2
    /\ SubSeq(chat_history', 1, Len(chat_history)) = chat_history
    /\ chat_history'[Len(chat_history) + 1].role = "user"
    /\ chat_history'[Len(chat_history) + 1].content = u
    /\ chat_history'[Len(chat_history) + 2].role = "assistant"

\* the response of that step
Responded(r) == chat_history'[Len(chat_history')].content = r

\* the utterances of the conversation so far
IsUser(m) == m.role = "user"

UserUtterances ==
    LET msgs == SelectSeq(chat_history, IsUser)
    IN  [i \in 1..Len(msgs) |-> msgs[i].content]

LastMessage == chat_history[Len(chat_history)]

\* the last response is r
LastResponse(r) ==
    /\ chat_history # <<>>
    /\ LastMessage.role = "assistant"
    /\ LastMessage.content = r

\* this step is a run of the "Generate Downloads" block: only it shows messages
ExportRan == export_notice' # {}

----------------------------------------------------------------------------
(* Claims *)

\* C1: outside the initial stage, processing an off-topic utterance leaves
\* stage, collected_words, pending_classification and classified_words
\* unchanged and the response is the fixed refusal string.
C1_OffTopicKeepsState ==
    [][\A u \in Vocabulary :
          (conversation_stage # "initial" /\ OffTopic[u] /\ Processed(u))
          => /\ UNCHANGED <<conversation_stage, collected_words,
                            pending_classification, classified_words>>
             /\ Responded(REFUSAL)]_vars

\* an off-topic utterance was refused in the middle of a classification round
C1_Witness ==
    /\ conversation_stage = "classify_words"
    /\ pending_classification # <<>>
    /\ classified_words # <<>>
    /\ LastResponse(REFUSAL)
    /\ OffTopic[chat_history[Len(chat_history) - 1].content]

\* the valid labels typed since the round started, normalised, in order
RoundLabels ==
    LET after      == SubSeq(chat_history, round.mark + 1, Len(chat_history))
        IsLabel(m) == m.role = "user" /\ IsOption(Classification[m.content])
        msgs       == SelectSeq(after, IsLabel)
    IN  [i \in 1..Len(msgs) |-> Classification[msgs[i].content]]

\* C2: queue draining. From classify_words with pending = [w1..wn], the valid
\* labels typed (whatever invalid or off-topic utterances come between them)
\* classify the words in queue order: after k < n valid labels the stage is
\* still classify_words and the queue is [w(k+1)..wn]; the stage is
\* final_options and the queue empty exactly from the n-th valid label on;
\* classified_words has gained one record per classified word, the i-th
\* pairing wi with the i-th valid label, with the session's department and a
\* timestamp not earlier than the start of the round.
C2_QueueDraining ==
    conversation_stage \in {"classify_words", "final_options"} =>
        LET words  == round.words
            labels == RoundLabels
            n      == Len(words)
            gained == Len(classified_words) - round.base
        IN  /\ n > 0
            /\ gained = (IF Len(labels) < n THEN Len(labels) ELSE n)
            /\ (conversation_stage = "final_options") <=> (Len(labels) >= n)
            /\ pending_classification = SubSeq(words, gained + 1, n)
            /\ \A i \in 1..gained :
                  LET r == classified_words[round.base + i]
                  IN  /\ r.word = words[i]
                      /\ r.classification = labels[i]
                      /\ r.department = user_department
                      /\ r.timestamp >= round.start

\* two words were drained by two different labels with one utterance that
\* was not a label in between
C2_Witness ==
    /\ conversation_stage = "final_options"
    /\ round.words = <<W_invoice, W_ledger>>
    /\ Len(chat_history) = round.mark + 6
    /\ LastResponse(ALL_CLASSIFIED)
    /\ Len(classified_words) = 2
    /\ classified_words[1].classification # classified_words[2].classification
    /\ classified_words[2].timestamp > round.start

E2EUtterances ==
    <<U_Finance, U_InvoiceLedger, U_Internal, U_Confidential, U_download>>

\* C3: after exactly the utterances "Finance", "invoice, ledger", "Internal",
\* "Confidential", "download" of a fresh Session, classified_words is
\* [(invoice, Internal, Finance), (ledger, Confidential, Finance)], the stage
\* is final_options and the last utterance has triggered an export.
C3_EndToEnd ==
    UserUtterances = E2EUtterances =>
        /\ Len(classified_words) = 2
        /\ classified_words[1].word = W_invoice
        /\ classified_words[1].classification = L_Internal
        /\ classified_words[1].department = U_Finance
        /\ classified_words[2].word = W_ledger
        /\ classified_words[2].classification = L_Confidential
        /\ classified_words[2].department = U_Finance
        /\ conversation_stage = "final_options"
        /\ export_notice # {}

\* C4: an export happens only as the result of a "download" utterance
\* processed in stage final_options.
C4_ExportOnlyOnDownload ==
    [][ExportRan =>
          /\ conversation_stage = "final_options"
          /\ \E u \in Vocabulary : HasDownload[u] /\ Processed(u)]_vars

\* C5: a restart (the step from final_options to initial) clears department,
\* collected_words, pending_classification, classified_words and the
\* conversation in chat_history, so that these fields and the stage are those
\* of a freshly created Session.
C5_RestartClears ==
    [][(conversation_stage = "final_options" /\ conversation_stage' = "initial")
          => /\ user_department' = <<>>
             /\ collected_words' = <<>>
             /\ pending_classification' = <<>>
             /\ classified_words' = <<>>
             /\ chat_history' = WithGreeting(<<>>, model')]_vars

\* a session that classified a word and was asked for the download was restarted
C5_Witness ==
    /\ conversation_stage = "initial"
    /\ ready_for_download
    /\ round.words # <<>>
    /\ chat_history = <<AssistantMessage(GREETING)>>
    /\ classified_words = <<>>

\* C6: in classify_words an utterance whose trimmed, title-cased form is not
\* a label leaves stage, pending_classification, collected_words and
\* classified_words unchanged (so any number of such utterances in a row does).
C6_InvalidLabelKeepsState ==
    [][\A u \in Vocabulary :
          (conversation_stage = "classify_words" /\ Processed(u)
             /\ ~IsOption(Classification[u]))
          => UNCHANGED <<conversation_stage, pending_classification,
                         collected_words, classified_words>>]_vars

\* two invalid labels in a row were answered by the prompt for the same word
C6_Witness ==
    /\ conversation_stage = "classify_words"
    /\ Len(chat_history) = round.mark + 4
    /\ pending_classification = round.words
    /\ LastResponse(Response("invalid_classification", <<round.words[1]>>))
    /\ chat_history[Len(chat_history) - 2].content =
           Response("invalid_classification", <<round.words[1]>>)

U_public_word == <<"p","u","b","l","i","c">>

C8_RepromptAlways ==
    [][\A u \in Vocabulary :
          (conversation_stage = "collect_words" /\ Processed(u)
             /\ (Words[u] = <<>> \/ OffTopic[u]))
          => /\ Responded(REPROMPT_WORDS)
             /\ UNCHANGED <<conversation_stage, collected_words,
                            pending_classification, classified_words>>]_vars

\* C8 amended: in collect_words an utterance with no usable word that is not
\* off-topic is answered by the re-prompt for comma-separated terms, an
\* off-topic one by the fixed refusal string; both leave stage,
\* collected_words, pending_classification and classified_words unchanged.
C8_RepromptOrRefusal ==
    [][\A u \in Vocabulary :
          (conversation_stage = "collect_words" /\ Processed(u)
             /\ (Words[u] = <<>> \/ OffTopic[u]))
          => /\ Responded(IF OffTopic[u] THEN REFUSAL ELSE REPROMPT_WORDS)
             /\ UNCHANGED <<conversation_stage, collected_words,
                            pending_classification, classified_words>>]_vars

\* "HR" (no usable word) was answered by the re-prompt after "joke, a"
\* (off-topic, one usable word) was refused
C8_Witness ==
    /\ conversation_stage = "collect_words"
    /\ Len(chat_history) >= 7
    /\ chat_history[Len(chat_history) - 3].content = U_joke_list
    /\ chat_history[Len(chat_history) - 2].content = REFUSAL
    /\ chat_history[Len(chat_history) - 1].content = U_HR
    /\ LastResponse(REPROMPT_WORDS)

\* C9: no run of the export changes stage, department, collected_words,
\* pending_classification or classified_words, and when save_to_excel or
\* save_to_json fails the run shows the failure notice (and the notice of
\* success only when both files were written).
C9_ExportKeepsSession ==
    [][ExportRan =>
          /\ UNCHANGED <<conversation_stage, user_department, collected_words,
                         pending_classification, classified_words>>
          /\ "excel_file" \notin export_files'
                => "Error saving to Excel" \in export_notice'
          /\ "json_file" \notin export_files'
                => "Error saving to JSON" \in export_notice'
          /\ export_files' # {"excel_file", "json_file"}
                => /\ "Error generating files" \in export_notice'
                   /\ "Files generated successfully!" \notin export_notice'
          /\ export_files' = {"excel_file", "json_file"}
                => export_notice' = {"Files generated successfully!"}]_vars

\* an export failed on the spreadsheet while words were still queued
C9_Witness ==
    /\ export_files = {"json_file"}
    /\ "Error generating files" \in export_notice
    /\ classified_words # <<>>
    /\ pending_classification # <<>>

\* the first non-empty value in the order secrets store, environment, manual
FirstNonEmptyKey ==
    IF secrets.status = "ok" /\ secrets.value # "" THEN secrets.value
    ELSE IF environ.set /\ environ.value # "" THEN environ.value
    ELSE manual_key

\* C10: get_api_key returns the first non-empty value in the order secrets
\* store, environment variable, manual entry; an empty value in an earlier
\* source does not hide a non-empty later one.
C10_FirstNonEmptyKey == get_api_key = FirstNonEmptyKey

\* the session fields hold the defaults of lines 16-28 and nothing was said
SessionAtDefaults ==
    /\ conversation_stage = "initial"
    /\ user_department = <<>>
    /\ collected_words = <<>>
    /\ pending_classification = <<>>
    /\ classified_words = <<>>
    /\ chat_history = <<>>

\* no later run can have a model: the configuration failed, or no source
\* gave a key and the manual input is not shown
NoModelForGood ==
    \/ ~config_ok
    \/ ~ManualInputShown /\ get_api_key = ""

\* C11: without a model the flow is disabled: while no model can be had the
\* six session fields stay at their defaults with an empty chat_history, and
\* every step that starts and ends without a model leaves the six fields as
\* they are (no message and no response is appended).
C11_NoModelNoFlow ==
    /\ [](NoModelForGood => SessionAtDefaults)
    /\ [][(~model /\ ~model')
          => UNCHANGED <<conversation_stage, user_department, collected_words,
                         pending_classification, classified_words,
                         chat_history>>]_vars

\* a key was typed by hand, the configuration of the model failed, and the
\* session is still untouched
C11_Witness ==
    /\ ~model
    /\ manual_key # ""
    /\ ~config_ok
    /\ SessionAtDefaults

\* marker occurs in u at some position, letter case ignored
OccursIgnoringCase(marker, u) ==
    \E i \in 1..Len(u) :
        \A j \in 1..Len(marker) :
            /\ i + j - 1 <= Len(u)
            /\ LowerChar(u[i + j - 1]) = LowerChar(marker[j])

\* u has an off-topic marker and no work marker
MarkedOffTopic(u) ==
    /\ \E k \in 1..Len(off_topic_keywords) :
           OccursIgnoringCase(off_topic_keywords[k], u)
    /\ \A k \in 1..Len(work_keywords) :
           ~OccursIgnoringCase(work_keywords[k], u)

\* C12: the topic guard rejects an utterance exactly when it has an off-topic
\* marker and no work marker, letter case ignored, whatever the session holds:
\* in every stage a processed utterance is answered with a refusal exactly
\* when it is so marked, and an utterance with a work marker is never refused.
C12_TopicGuard ==
    [][\A u \in Vocabulary :
          Processed(u)
          => /\ (Responded(REFUSAL) \/ Responded(REFUSAL_DEPARTMENT))
                <=> MarkedOffTopic(u)
             /\ is_off_topic(u) <=> MarkedOffTopic(u)
             /\ (\E k \in 1..Len(work_keywords) :
                     OccursIgnoringCase(work_keywords[k], u))
                => ~Responded(REFUSAL) /\ ~Responded(REFUSAL_DEPARTMENT)]_vars

\* an upper-case off-topic marker was refused and an utterance with an
\* off-topic marker and an upper-case work marker was taken as a word list
C12_Witness ==
    /\ \E i \in 1..(Len(chat_history) - 1) :
          /\ chat_history[i].role = "user"
          /\ chat_history[i].content = U_Tell_JOKE
          /\ chat_history[i + 1].content = REFUSAL
    /\ \E i \in 1..(Len(chat_history) - 1) :
          /\ chat_history[i].role = "user"
          /\ chat_history[i].content = U_What_Is_MEMO
          /\ chat_history[i + 1].content.template = "ask_classification"

\* the last n elements of s
LastOf(s, n) == SubSeq(s, Len(s) - n + 1, Len(s))

\* C13: pending_classification is a suffix of the batch most recently
\* appended to collected_words: that batch is the end of collected_words, and
\* the queue holds exactly its words not yet classified, in their order.
C13_PendingIsSuffix ==
    IF collected_words = <<>>
    THEN pending_classification = <<>>
    ELSE LET batch == round.words
             done  == Len(classified_words) - round.base
         IN  /\ Len(batch) <= Len(collected_words)
             /\ LastOf(collected_words, Len(batch)) = batch
             /\ done \in 0..Len(batch)
             /\ pending_classification = SubSeq(batch, done + 1, Len(batch))

\* the second round of a session, one of its two words classified
C13_Witness ==
    /\ Len(collected_words) > Len(round.words)
    /\ Len(round.words) = 2
    /\ Len(classified_words) = round.base + 1
    /\ pending_classification = <<round.words[2]>>
    /\ round.words[1] # round.words[2]

\* C14: from a fresh session, the queue is non-empty whenever the stage is
\* classify_words and empty in the three other stages.
C14_QueueMatchesStage ==
    /\ conversation_stage \in Stages
    /\ conversation_stage = "classify_words" <=> pending_classification # <<>>

\* the stage came back to collect_words after a classified batch, and the
\* queue is empty again
C14_Witness ==
    /\ conversation_stage = "collect_words"
    /\ classified_words # <<>>
    /\ pending_classification = <<>>
    /\ LastResponse(MORE_WORDS)

\* the handler took up utterance u in this step: its message is appended
Handled(u) ==
    /\ Len(chat_history') > Len(chat_history)
    /\ SubSeq(chat_history', 1, Len(chat_history)) = chat_history
    /\ chat_history'[Len(chat_history) + 1].role = "user"
    /\ chat_history'[Len(chat_history) + 1].content = u

\* C15: in stage classify_words with an empty queue, an on-topic utterance is
\* answered with the fallback message, without an error, and the stage and
\* the data fields are unchanged.
C15_EmptyQueueFallback ==
    [][\A u \in Vocabulary :
          (/\ conversation_stage = "classify_words"
           /\ pending_classification = <<>>
           /\ ~OffTopic[u]
           /\ Handled(u))
          => /\ Processed(u)
             /\ Responded(FALLBACK)
             /\ exception' = "none"
             /\ UNCHANGED <<conversation_stage, user_department,
                            collected_words, pending_classification,
                            classified_words>>]_vars

\* C16 as claimed: in final_options an on-topic utterance containing
\* 'restart' always destroys the session, so the handler never appends it to
\* chat_history and answers it.
C16_RestartAlways ==
    [][\A u \in Vocabulary :
          (/\ conversation_stage = "final_options"
           /\ ~OffTopic[u]
           /\ HasRestart[u])
          => ~Handled(u)]_vars

\* the handler destroys the session on utterance u
Restarted(u) ==
    /\ FinalRestart(u)
    /\ conversation_stage' = "initial"
    /\ user_department' = <<>>
    /\ collected_words' = <<>>
    /\ pending_classification' = <<>>
    /\ classified_words' = <<>>
    /\ chat_history' = <<AssistantMessage(GREETING)>>

\* C16 (amended): in final_options an on-topic utterance containing 'restart'
\* destroys the session and returns the stage to initial when it contains
\* neither 'more' nor 'download', and that is then all the handler can do
\* with it; when it also contains 'more' or 'download' the session is not
\* destroyed and the utterance is handled as 'more', else as 'download'.
C16_RestartUnlessMoreOrDownload ==
    conversation_stage = "final_options"
    => \A u \in Vocabulary :
          (~OffTopic[u] /\ HasRestart[u])
          => IF HasMore[u]
             THEN /\ ENABLED FinalMore(u)
                  /\ ~ENABLED FinalRestart(u)
                  /\ ~ENABLED FinalDownload(u)
             ELSE IF HasDownload[u]
             THEN /\ ENABLED FinalDownload(u)
                  /\ ~ENABLED FinalRestart(u)
             ELSE /\ ENABLED Restarted(u)
                  /\ ~ENABLED FinalMore(u)
                  /\ ~ENABLED FinalDownload(u)
                  /\ ~ENABLED FinalHelp(u)

\* 'restart more' was typed in final_options and was handled as 'more': the
\* records are kept and the stage is collect_words
C16_Witness ==
    /\ conversation_stage = "collect_words"
    /\ classified_words # <<>>
    /\ Len(chat_history) >= 2
    /\ chat_history[Len(chat_history) - 1].role = "user"
    /\ chat_history[Len(chat_history) - 1].content = U_restart_more
    /\ LastResponse(MORE_WORDS)

\* C17: the department changes only when the initial stage accepts an
\* utterance and when a restart clears it, so every record of
\* classified_words carries the department of the session.
C17_DepartmentFixed ==
    /\ [](\A i \in 1..Len(classified_words) :
             classified_words[i].department = user_department)
    /\ [][user_department' # user_department
          => \/ /\ conversation_stage = "initial"
                /\ conversation_stage' = "collect_words"
                /\ \E u \in Vocabulary : Processed(u) /\ user_department' = u
             \/ /\ conversation_stage = "final_options"
                /\ conversation_stage' = "initial"
                /\ user_department' = <<>>
                /\ classified_words' = <<>>]_vars

\* records of two rounds of one session, all with its department
C17_Witness ==
    /\ user_department # <<>>
    /\ round.base >= 1
    /\ Len(classified_words) > round.base
    /\ \A i \in 1..Len(classified_words) :
          classified_words[i].department = user_department

\* s is a prefix of t
IsPrefix(s, t) == Len(s) <= Len(t) /\ SubSeq(t, 1, Len(s)) = s

\* this step is a restart: the final options hand over to a fresh session
RestartStep ==
    conversation_stage = "final_options" /\ conversation_stage' = "initial"

\* C18: across every step other than restart the old collected_words is a
\* prefix of the new one and the old classified_words is a prefix of the new
\* one.
C18_AppendOnly ==
    [][~RestartStep
       => /\ IsPrefix(collected_words, collected_words')
          /\ IsPrefix(classified_words, classified_words')]_vars

\* a second batch was appended behind the first and a record behind the
\* first record
C18_Witness ==
    /\ round.base >= 1
    /\ Len(collected_words) > Len(round.words)
    /\ round.words # <<>>
    /\ Len(classified_words) > round.base

\* the word fields of classified_words, in order
ClassifiedWordFields ==
    [i \in 1..Len(classified_words) |-> classified_words[i].word]

\* C20: collected_words is the word fields of classified_words followed by
\* pending_classification, so the lengths add up, and in final_options the
\* i-th collected word is the word of the i-th record.
C20_WordsConserved ==
    /\ collected_words = ClassifiedWordFields \o pending_classification
    /\ Len(collected_words) =
           Len(classified_words) + Len(pending_classification)
    /\ conversation_stage = "final_options"
       => /\ Len(classified_words) = Len(collected_words)
          /\ \A i \in 1..Len(collected_words) :
                classified_words[i].word = collected_words[i]

\* the final options after two rounds, the same word collected twice and
\* classified twice
C20_Witness ==
    /\ conversation_stage = "final_options"
    /\ round.base >= 1
    /\ \E i, j \in 1..Len(collected_words) :
          i < j /\ collected_words[i] = collected_words[j]

\* the stage changes of the dispatch
StageChanges ==
    { <<"initial", "collect_words">>,
      <<"collect_words", "classify_words">>,
      <<"classify_words", "final_options">>,
      <<"final_options", "collect_words">>,
      <<"final_options", "initial">> }

\* one utterance handled, whatever the length of chat_history
Turn(u) ==
    \/ OffTopicRefusal(u)
    \/ InitialOffTopic(u)
    \/ InitialDepartment(u)
    \/ \E now \in Now : CollectWords(u, now)
    \/ CollectReprompt(u)
    \/ \E now \in Now : ClassifyValid(u, now)
    \/ ClassifyInvalid(u)
    \/ FinalMore(u)
    \/ FinalDownload(u)
    \/ FinalRestart(u)
    \/ FinalHelp(u)

\* a bound on the number of turns still needed to reach final_options
TurnsToFinal ==
    CASE conversation_stage = "final_options"  -> 0
      [] conversation_stage = "classify_words" -> Len(pending_classification)
      [] conversation_stage = "collect_words"  -> Len(pending_classification) + 5
      [] OTHER                                 -> Len(pending_classification) + 6

\* C19: the stage is one of the four values; a step changes it only along
\* initial->collect_words, collect_words->classify_words,
\* classify_words->final_options, final_options->collect_words and
\* final_options->initial; and no state is terminal: outside final_options
\* some utterance brings final_options one turn nearer, and in final_options
\* some utterance leaves it, so final_options can always be reached again.
C19_StageMachine ==
    /\ [](conversation_stage \in Stages)
    /\ [][conversation_stage' # conversation_stage
          => <<conversation_stage, conversation_stage'>> \in StageChanges]_vars
    /\ [](IF conversation_stage = "final_options"
          THEN ENABLED (\E u \in Vocabulary :
                           Turn(u) /\ conversation_stage' = "collect_words")
          ELSE ENABLED (\E u \in Vocabulary :
                           Turn(u) /\ TurnsToFinal' < TurnsToFinal))

\* a second session, begun by a restart, has reached collect_words
C19_Witness ==
    /\ conversation_stage = "collect_words"
    /\ round.words # <<>>
    /\ collected_words = <<>>
    /\ user_department # <<>>

====
